---- MODULE Spec2Model ----
(***************************************************************************)
(* Event-driven backtest engine (execution_engine.py), position ledger     *)
(* (models.py) and portfolio reconstructor (reporting.py).                 *)
(*                                                                         *)
(* Python floats are modelled as exact rationals <<numerator, denominator>>*)
(* in lowest terms with a positive denominator; prices and quantities are  *)
(* small integers, for which the float operations of the source are exact  *)
(* up to the divisions, which the rationals carry without rounding.        *)
(***************************************************************************)
EXTENDS Integers, Sequences, FiniteSets, TLC

VARIABLES
    buffer,         \* MarketDataContainer.buffer: ticks seen by on_tick
    positions,      \* container.positions: the engine's live ledger (quantity, avg_price)
    order_log,      \* BackTestengine.order_log
    error_log,      \* BackTestengine.error_log
    pc,             \* position inside on_tick: "idle", "strategy", "orders"
    tick,           \* the observation on_tick is processing
    strat,          \* index of the strategy the for loop of on_tick is at
    pending,        \* orders returned by _create_orders, not yet executed
    instantiated,   \* history: Order objects constructed so far
    gen_calls,      \* history: <<tick number, strategy>> of each generate_signals call
    escaped,        \* history: an exception left on_tick
    last,           \* history: what the most recent step did
    all_positions,  \* MarketDataContainer.all_positions (models.py ledger)
    recon,          \* locals of _calculate_portfolio_series: cash, positions, values
    fills,          \* history: the fills applied to all_positions and recon
    intent,         \* input of the order validators: a signal and the holdings
    outcome,        \* what the order validators did with intent
    market,         \* argument of run: the observations, in input order
    queue,          \* run: the sorted observations not yet passed to on_tick
    run_pc,         \* position inside run: "ready", "running", "done"
    snapshot,       \* the object the latest report() call returned
    taken,          \* history: the content of snapshot when it was returned
    reports,        \* history: number of report() calls
    capital,        \* PerformanceReporter.initial_capital
    rlog,           \* the order records given to the reporter
    perf            \* what the reporter computed from rlog

vars == <<buffer, positions, order_log, error_log, pc, tick, strat, pending,
          instantiated, gen_calls, escaped, last, all_positions, recon, fills,
          intent, outcome, market, queue, run_pc, snapshot, taken, reports,
          capital, rlog, perf>>

engine_vars == <<buffer, positions, order_log, error_log, pc, tick, strat, pending,
                 instantiated, gen_calls, escaped, last>>

ledger_vars == <<all_positions, recon, fills>>

validator_vars == <<intent, outcome>>
run_vars == <<market, queue, run_pc>>
report_vars == <<snapshot, taken, reports>>
reporter_vars == <<capital, rlog, perf>>
aux_vars == <<validator_vars, run_vars, report_vars, reporter_vars>>

----------------------------------------------------------------------------
(* Bounds and input sets *)

MaxTicks == 2
MaxFills == 3

Symbols == {"X", "Y"}
FillQuantities == {1, 2, 3}
FillPrices == {2, 5}

----------------------------------------------------------------------------
(* Exact arithmetic standing for the float arithmetic of the source *)

Abs(i) == IF i < 0 THEN -i ELSE i

Min(a, b) == IF a <= b THEN a ELSE b

RECURSIVE GCD(_, _)
GCD(a, b) == IF b = 0 THEN a ELSE GCD(b, a % b)

Norm(n, d) ==
    LET g == GCD(Abs(n), d)
    IN  IF n = 0 THEN <<0, 1>> ELSE <<n \div g, d \div g>>

RInt(i) == <<i, 1>>
RZero == <<0, 1>>
RAdd(a, b) == Norm(a[1] * b[2] + b[1] * a[2], a[2] * b[2])
RSub(a, b) == Norm(a[1] * b[2] - b[1] * a[2], a[2] * b[2])
RMul(a, b) == Norm(a[1] * b[1], a[2] * b[2])
RDiv(a, b) ==
    IF b[1] > 0 THEN Norm(a[1] * b[2], a[2] * b[1])
                ELSE Norm(-(a[1] * b[2]), -(a[2] * b[1]))
RLt(a, b) == a[1] * b[2] < b[1] * a[2]
RLe(a, b) == a[1] * b[2] <= b[1] * a[2]

----------------------------------------------------------------------------
(* models.py: MarketDataContainer, the position ledger *)

ZeroPosition == [total_shares |-> 0, total_cost |-> RZero, average_price |-> RZero]

calculate_average_price(position) ==
    IF position.total_shares > 0
    THEN [position EXCEPT !.average_price =
             RDiv(position.total_cost, RInt(position.total_shares))]
    ELSE [position EXCEPT !.average_price = RZero]

fetch_current_position(all, symbol) ==
    IF symbol \in DOMAIN all THEN all[symbol] ELSE ZeroPosition

\* the SELL branch without the min(): the whole order quantity is taken off
SellBranchUnclipped(position, quantity) ==
    LET p1 == [position EXCEPT
                  !.total_shares = position.total_shares - quantity,
                  !.total_cost = RSub(position.total_cost,
                                      RMul(position.average_price, RInt(quantity)))]
        p2 == IF p1.total_shares = 0
              THEN [p1 EXCEPT !.total_cost = RZero, !.average_price = RZero]
              ELSE p1
    IN  IF p2.total_shares > 0
        THEN [p2 EXCEPT !.average_price = RDiv(p2.total_cost, RInt(p2.total_shares))]
        ELSE p2

\* the SELL branch that takes the shares off and forgets the cost basis
SellBranchNoReset(position, quantity) ==
    [position EXCEPT
        !.total_shares = position.total_shares - Min(quantity, position.total_shares)]

SellBranch(position, quantity) ==
    LET sell_quantity == Min(quantity, position.total_shares)
        p1 == [position EXCEPT
                  !.total_shares = position.total_shares - sell_quantity,
                  !.total_cost = RSub(position.total_cost,
                                      RMul(position.average_price, RInt(sell_quantity)))]
        p2 == IF p1.total_shares <= 0
              THEN [p1 EXCEPT !.total_cost = RZero, !.average_price = RZero]
              ELSE p1
    IN  calculate_average_price(p2)

\* the BUY branch adding the price once instead of price * quantity
BuyBranchUnweighted(position, quantity, price) ==
    calculate_average_price(
        [position EXCEPT
            !.total_shares = position.total_shares + quantity,
            !.total_cost = RAdd(position.total_cost, RInt(price))])

BuyBranch(position, quantity, price) ==
    calculate_average_price(
        [position EXCEPT
            !.total_shares = position.total_shares + quantity,
            !.total_cost = RAdd(position.total_cost, RMul(RInt(price), RInt(quantity)))])

update_position(all, order) ==
    LET symbol == order.symbol
        present == IF symbol \in DOMAIN all THEN all ELSE (symbol :> ZeroPosition) @@ all
        position == present[symbol]
    IN  IF order.side = "BUY"
        THEN [present EXCEPT ![symbol] = BuyBranch(position, order.quantity, order.price)]
        ELSE IF order.side = "SELL"
        THEN [present EXCEPT ![symbol] = SellBranch(position, order.quantity)]
        ELSE present

----------------------------------------------------------------------------
(* reporting.py: PerformanceReporter._calculate_portfolio_series *)

initial_capital == 10000

ReconInit == [cash |-> RInt(initial_capital), positions |-> <<>>,
              values |-> <<RInt(initial_capital)>>]

RECURSIVE SumHoldings(_, _)
SumHoldings(pos, syms) ==
    IF syms = {} THEN RZero
    ELSE LET s == CHOOSE x \in syms : TRUE
         IN  RAdd(RMul(RInt(pos[s].quantity), pos[s].avg_price),
                  SumHoldings(pos, syms \ {s}))

\* the BUY branch taking the latest price as the average
ReconBuyLatestPrice(pos, quantity, price) ==
    [quantity |-> pos.quantity + quantity, avg_price |-> RInt(price)]

ReconBuy(pos, quantity, price) ==
    LET old_qty == pos.quantity
        new_qty == old_qty + quantity
    IN  [quantity |-> new_qty,
         avg_price |-> IF new_qty > 0
                       THEN RDiv(RAdd(RMul(pos.avg_price, RInt(old_qty)),
                                      RMul(RInt(price), RInt(quantity))),
                                 RInt(new_qty))
                       ELSE pos.avg_price]

\* the SELL branch taking the whole order quantity off the holding
ReconSellUnclipped(pos, quantity) ==
    LET q == pos.quantity - quantity
    IN  [quantity |-> q, avg_price |-> IF q = 0 THEN RZero ELSE pos.avg_price]

ReconSell(pos, quantity) ==
    LET sell_qty == Min(quantity, pos.quantity)
        q == pos.quantity - sell_qty
    IN  [quantity |-> q, avg_price |-> IF q = 0 THEN RZero ELSE pos.avg_price]

\* the loop body crediting a SELL with the whole order quantity
ReconStepFullProceeds(st, order) ==
    IF order.status # "FILLED" THEN st
    ELSE
    LET symbol == order.symbol
        present == IF symbol \in DOMAIN st.positions THEN st.positions
                   ELSE (symbol :> [quantity |-> 0, avg_price |-> RZero]) @@ st.positions
        pos == present[symbol]
        newpos == IF order.side = "BUY" THEN ReconBuy(pos, order.qty, order.price)
                  ELSE IF order.side = "SELL" THEN ReconSell(pos, order.qty)
                  ELSE pos
        newcash == IF order.side = "BUY"
                   THEN RSub(st.cash, RMul(RInt(order.qty), RInt(order.price)))
                   ELSE IF order.side = "SELL"
                   THEN RAdd(st.cash, RMul(RInt(order.qty),
                                           RInt(order.price)))
                   ELSE st.cash
        newpositions == [present EXCEPT ![symbol] = newpos]
    IN  [cash |-> newcash,
         positions |-> newpositions,
         values |-> Append(st.values,
                           RAdd(newcash, SumHoldings(newpositions, DOMAIN newpositions)))]

\* the loop body without the skip of lines 110-111
ReconStepAnyStatus(st, order) ==
    IF order.status \notin {"FILLED", "REJECTED"} THEN st
    ELSE
    LET symbol == order.symbol
        present == IF symbol \in DOMAIN st.positions THEN st.positions
                   ELSE (symbol :> [quantity |-> 0, avg_price |-> RZero]) @@ st.positions
        pos == present[symbol]
        newpos == IF order.side = "BUY" THEN ReconBuy(pos, order.qty, order.price)
                  ELSE IF order.side = "SELL" THEN ReconSell(pos, order.qty)
                  ELSE pos
        newcash == IF order.side = "BUY"
                   THEN RSub(st.cash, RMul(RInt(order.qty), RInt(order.price)))
                   ELSE IF order.side = "SELL"
                   THEN RAdd(st.cash, RMul(RInt(Min(order.qty, pos.quantity)),
                                           RInt(order.price)))
                   ELSE st.cash
        newpositions == [present EXCEPT ![symbol] = newpos]
    IN  [cash |-> newcash,
         positions |-> newpositions,
         values |-> Append(st.values,
                           RAdd(newcash, SumHoldings(newpositions, DOMAIN newpositions)))]

\* one iteration of the loop over sorted_orders (lines 109-145)
ReconStep(st, order) ==
    IF order.status # "FILLED" THEN st
    ELSE
    LET symbol == order.symbol
        present == IF symbol \in DOMAIN st.positions THEN st.positions
                   ELSE (symbol :> [quantity |-> 0, avg_price |-> RZero]) @@ st.positions
        pos == present[symbol]
        newpos == IF order.side = "BUY" THEN ReconBuy(pos, order.qty, order.price)
                  ELSE IF order.side = "SELL" THEN ReconSell(pos, order.qty)
                  ELSE pos
        newcash == IF order.side = "BUY"
                   THEN RSub(st.cash, RMul(RInt(order.qty), RInt(order.price)))
                   ELSE IF order.side = "SELL"
                   THEN RAdd(st.cash, RMul(RInt(Min(order.qty, pos.quantity)),
                                           RInt(order.price)))
                   ELSE st.cash
        newpositions == [present EXCEPT ![symbol] = newpos]
    IN  [cash |-> newcash,
         positions |-> newpositions,
         values |-> Append(st.values,
                           RAdd(newcash, SumHoldings(newpositions, DOMAIN newpositions)))]

----------------------------------------------------------------------------
(* Order and the ledger operation of the container the engine calls.       *)
(* execution_engine.py constructs Order(side, symbol, quantity, price,     *)
(* timestamp), calls Order.validate(), reads container.positions and calls *)
(* container.apply_fill(order); their definitions are not in the source    *)
(* tree (models.py holds an Order without validate() and a container with  *)
(* all_positions and update_position) and follow sections 4.1 and 4.2 of   *)
(* the specification: the constructor stores its arguments, validate()     *)
(* raises OrderError, positions is a plain attribute and apply_fill never  *)
(* raises.                                                                 *)

Order(side, symbol, quantity, price, timestamp) ==
    [side |-> side, symbol |-> symbol, quantity |-> quantity, price |-> price,
     timestamp |-> timestamp, status |-> "NEW"]

\* Order.validate(): TRUE when it raises OrderError
ValidateRaises(o) ==
    \/ o.side \notin {"BUY", "SELL"}
    \/ o.quantity <= 0
    \/ o.price <= 0
    \/ o.symbol = ""

ZeroHolding == [quantity |-> 0, avg_price |-> RZero]

\* container.apply_fill(order); the ledger never raises
apply_fill(pos, order) ==
    LET symbol == order.symbol
        present == IF symbol \in DOMAIN pos THEN pos ELSE (symbol :> ZeroHolding) @@ pos
        p == present[symbol]
        new_qty == p.quantity + order.quantity
        sell_qty == Min(order.quantity, p.quantity)
    IN  [raised |-> FALSE,
         positions |->
            IF order.side = "BUY"
            THEN [present EXCEPT ![symbol] =
                    [quantity |-> new_qty,
                     avg_price |-> IF new_qty > 0
                                   THEN RDiv(RAdd(RMul(p.avg_price, RInt(p.quantity)),
                                                  RMul(RInt(order.price),
                                                       RInt(order.quantity))),
                                             RInt(new_qty))
                                   ELSE p.avg_price]]
            ELSE [present EXCEPT ![symbol] =
                    [quantity |-> p.quantity - sell_qty,
                     avg_price |-> IF p.quantity - sell_qty = 0 THEN RZero
                                   ELSE p.avg_price]]]

----------------------------------------------------------------------------
(* execution_engine.py: BackTestengine *)

\* the registered strategies, by class name, in registration order
Strategies == <<"MovingAverageCrossover", "Momentum">>
NumStrategies == Len(Strategies)

TickSymbols == Symbols
TickPrices == {4}

\* the intents a strategy may return: three or four fields, or another shape
sBuyX == <<"BUY", "X", 2>>
sSellX == <<"sell", "X", 3, 5>>
sBuyY == <<"BUY", "Y", 1, 2>>
sBadQty == <<"BUY", "X", 0, 5>>
sBadShape == <<"BUY", "X">>

\* what one generate_signals call may do: raise, or return a list of intents
Raise(cls) == [raises |-> TRUE, class |-> cls, signals |-> <<>>]
Return(signals) == [raises |-> FALSE, class |-> "", signals |-> signals]

Behaviours(i) ==
    IF i = 1
    THEN {Raise("RuntimeError"), Return(<<>>), Return(<<sBuyX>>),
          Return(<<sBuyX, sBadQty>>)}
    ELSE {Raise("RuntimeError"), Return(<<sSellX>>), Return(<<sBuyY, sSellX>>),
          Return(<<sBadShape, sBuyY>>)}

\* classes deriving from Exception that the run can raise
ExceptionClasses == {"OrderError", "ExecutionError", "RuntimeError"}

\* str(side).upper()
Upper(side) ==
    CASE side = "buy" -> "BUY"
      [] side = "sell" -> "SELL"
      [] side = "hold" -> "HOLD"
      [] OTHER -> side

NoOrder == [side |-> "", symbol |-> "", quantity |-> 0, price |-> 0,
            timestamp |-> 0, status |-> "NONE"]

\* _create_orders: the list built so far, whether OrderError was raised, the
\* number of Order objects constructed and the order whose validate() raised
RECURSIVE CreateFrom(_, _, _, _)
CreateFrom(signals, t, orders, created) ==
    IF signals = <<>>
    THEN [orders |-> orders, raised |-> FALSE, created |-> created, invalid |-> NoOrder]
    ELSE
    LET s == Head(signals)
    IN  IF Len(s) \notin {3, 4}
        THEN [orders |-> <<>>, raised |-> TRUE, created |-> created, invalid |-> NoOrder]
        ELSE
        LET price == IF Len(s) = 3 THEN t.price ELSE s[4]
            o == Order(Upper(s[1]), s[2], s[3], price, t.timestamp)
        IN  IF ValidateRaises(o)
            THEN [orders |-> <<>>, raised |-> TRUE, created |-> created + 1,
                  invalid |-> o]
            ELSE CreateFrom(Tail(signals), t, Append(orders, o), created + 1)

_create_orders(signals, t) == CreateFrom(signals, t, <<>>, 0)

\* _execute applying the fill before the venue check
_execute_fill_first(order, fail, pos) ==
    LET filled == [order EXCEPT !.status = "FILLED"]
        r == apply_fill(pos, filled)
    IN  IF fail
        THEN [order |-> order, positions |-> r.positions, raised |-> TRUE,
              trail |-> <<"NEW">>]
        ELSE [order |-> filled, positions |-> r.positions, raised |-> r.raised,
              trail |-> <<"NEW", "FILLED">>]

\* _execute: fail is random.random() < 0.03
_execute(order, fail, pos) ==
    IF fail
    THEN [order |-> order, positions |-> pos, raised |-> TRUE, trail |-> <<"NEW">>]
    ELSE LET filled == [order EXCEPT !.status = "FILLED"]
             r == apply_fill(pos, filled)
         IN  [order |-> filled, positions |-> r.positions, raised |-> r.raised,
              trail |-> <<"NEW", "FILLED">>]

ExecutionErrorEntry(t, order) ==
    [kind |-> "execution", timestamp |-> t.timestamp, symbol |-> order.symbol,
     side |-> order.side, quantity |-> order.quantity, strategy |-> "",
     detail |-> "Simulated venue outage"]

\* the try/except/finally around _execute without order.status = "REJECTED"
HandleOrderKeepsStatus(order, fail, pos, t) ==
    LET r == _execute(order, fail, pos)
    IN  IF r.raised
        THEN [order |-> r.order, positions |-> r.positions,
              errors |-> <<ExecutionErrorEntry(t, order)>>, trail |-> r.trail]
        ELSE [order |-> r.order, positions |-> r.positions, errors |-> <<>>,
              trail |-> r.trail]

\* the try/except/finally around _execute (lines 30-36); the caller appends
\* .order to order_log and .errors to error_log
HandleOrder(order, fail, pos, t) ==
    LET r == _execute(order, fail, pos)
    IN  IF r.raised
        THEN [order |-> [r.order EXCEPT !.status = "REJECTED"],
              positions |-> r.positions,
              errors |-> <<ExecutionErrorEntry(t, order)>>,
              trail |-> Append(r.trail, "REJECTED")]
        ELSE [order |-> r.order, positions |-> r.positions, errors |-> <<>>,
              trail |-> r.trail]

\* except catching the engine's own error classes only
OuterExceptCatchesOwn(cls) == cls \in {"OrderError", "ExecutionError"}

\* line 37: except Exception
OuterExceptCatches(cls) == cls \in ExceptionClasses

StrategyErrorEntry(t, i, detail) ==
    [kind |-> "strategy", timestamp |-> t.timestamp, symbol |-> "", side |-> "",
     quantity |-> 0, strategy |-> Strategies[i], detail |-> detail]

\* the handler of line 38 swallowing the error
LogStrategyErrorSilent(log, t, i, detail) == log

\* a handler that keeps the latest failure only
LogStrategyErrorLatestOnly(log, t, i, detail) == <<StrategyErrorEntry(t, i, detail)>>

\* line 38
LogStrategyError(log, t, i, detail) == Append(log, StrategyErrorEntry(t, i, detail))

\* a try wrapped around the whole for loop: an error ends the loop
AfterStrategyErrorBreak(i) == NumStrategies + 1

\* the strategy the loop goes to after the handler of lines 37-38 ran
AfterStrategyError(i) == i + 1

\* the loop of on_tick moves to strategy i, or on_tick returns
GoTo(i) ==
    /\ strat' = i
    /\ pc' = IF i > NumStrategies THEN "idle" ELSE "strategy"

\* on_tick is entered: lines 19-20
OnTick(symbol, price) ==
    /\ pc = "idle"
    /\ Len(buffer) < MaxTicks
    /\ tick' = [timestamp |-> Len(buffer) + 1, symbol |-> symbol, price |-> price]
    /\ buffer' = Append(buffer, tick')
    /\ GoTo(1)
    /\ last' = [kind |-> "tick"]
    /\ UNCHANGED <<positions, order_log, error_log, pending, instantiated,
                   gen_calls, escaped>>
    /\ UNCHANGED ledger_vars
    /\ UNCHANGED aux_vars

\* an exception of class cls reaches the except of line 37
Raised(cls, detail, kind, invalid) ==
    IF OuterExceptCatches(cls)
    THEN /\ error_log' = LogStrategyError(error_log, tick, strat, detail)
         /\ GoTo(AfterStrategyError(strat))
         /\ escaped' = escaped
         /\ last' = [kind |-> kind, invalid |-> invalid]
    ELSE /\ error_log' = error_log
         /\ strat' = strat
         /\ pc' = "idle"
         /\ escaped' = TRUE
         /\ last' = [kind |-> "escaped", invalid |-> invalid]

\* one iteration of the for loop up to the call of _create_orders: lines 22-28, 37-38
StrategyStep(b) ==
    /\ pc = "strategy"
    /\ gen_calls' = Append(gen_calls, <<tick.timestamp, strat>>)
    /\ UNCHANGED <<buffer, tick, positions, order_log>>
    /\ UNCHANGED ledger_vars
    /\ UNCHANGED aux_vars
    /\ IF b.raises
       THEN /\ Raised(b.class, "strategy failure", "strategy_raised", NoOrder)
            /\ UNCHANGED <<pending, instantiated>>
       ELSE IF b.signals = <<>>
       THEN /\ GoTo(strat + 1)
            /\ last' = [kind |-> "no_signals"]
            /\ UNCHANGED <<pending, instantiated, error_log, escaped>>
       ELSE LET r == _create_orders(b.signals, tick)
            IN  /\ instantiated' = instantiated + r.created
                /\ IF r.raised
                   THEN /\ Raised("OrderError", "This order is not valid",
                                  "create_failed", r.invalid)
                        /\ pending' = <<>>
                   ELSE /\ pending' = r.orders
                        /\ pc' = "orders"
                        /\ strat' = strat
                        /\ last' = [kind |-> "created"]
                        /\ UNCHANGED <<error_log, escaped>>

\* one iteration of the loop over orders: lines 29-36
OrderStep(fail) ==
    /\ pc = "orders"
    /\ pending # <<>>
    /\ LET h == HandleOrder(Head(pending), fail, positions, tick)
       IN  /\ positions' = h.positions
           /\ error_log' = error_log \o h.errors
           /\ order_log' = Append(order_log, h.order)
           /\ last' = [kind |-> IF h.errors = <<>> THEN "filled" ELSE "rejected",
                       trail |-> h.trail]
    /\ pending' = Tail(pending)
    /\ IF Tail(pending) = <<>> THEN GoTo(strat + 1) ELSE UNCHANGED <<pc, strat>>
    /\ UNCHANGED <<buffer, tick, instantiated, gen_calls, escaped>>
    /\ UNCHANGED ledger_vars
    /\ UNCHANGED aux_vars

----------------------------------------------------------------------------
(* Fills applied straight to the ledger and to the reconstructor *)

FillOrders ==
    [symbol : Symbols, side : {"BUY", "SELL"},
     quantity : FillQuantities, price : FillPrices]

\* datetime.isoformat(): fixed-width, zero-padded fields, most significant
\* first; a string is the sequence of its characters, here two digits
IsoFormat(t) == <<t \div 10, t % 10>>

AsReportOrder(o, t) ==
    [time |-> IsoFormat(t), symbol |-> o.symbol, side |-> o.side, qty |-> o.quantity,
     price |-> o.price, status |-> "FILLED"]

EngineIdle ==
    /\ buffer = <<>>
    /\ positions = <<>>
    /\ order_log = <<>>
    /\ error_log = <<>>
    /\ pc = "idle"
    /\ tick = [timestamp |-> 0, symbol |-> "X", price |-> 1]
    /\ strat = 0
    /\ pending = <<>>
    /\ instantiated = 0
    /\ gen_calls = <<>>
    /\ escaped = FALSE
    /\ last = [kind |-> "init"]

LedgerEmpty ==
    /\ all_positions = <<>>
    /\ recon = ReconInit
    /\ fills = <<>>

NoIntent == [signal |-> <<>>, bound |-> FALSE, held |-> 0]
NoOutcome == [kind |-> "none"]
NoSnapshot == [kind |-> "none"]

ValidatorIdle == intent = NoIntent /\ outcome = NoOutcome
RunIdle == market = <<>> /\ queue = <<>> /\ run_pc = "ready"
ReportIdle == snapshot = NoSnapshot /\ taken = NoSnapshot /\ reports = 0
ReporterIdle == capital = initial_capital /\ rlog = <<>> /\ perf = NoOutcome
AuxIdle == ValidatorIdle /\ RunIdle /\ ReportIdle /\ ReporterIdle

InitLedger == EngineIdle /\ LedgerEmpty /\ AuxIdle

ApplyFill(o) ==
    /\ Len(fills) < MaxFills
    /\ all_positions' = update_position(all_positions, o)
    /\ recon' = ReconStep(recon, AsReportOrder(o, Len(fills) + 1))
    /\ fills' = Append(fills, o)
    /\ UNCHANGED engine_vars
    /\ UNCHANGED aux_vars

NextLedger == \E o \in FillOrders : ApplyFill(o)

SpecLedger == InitLedger /\ [][NextLedger]_vars

----------------------------------------------------------------------------
(* The engine driven by on_tick calls *)

Init == EngineIdle /\ LedgerEmpty /\ AuxIdle

Next ==
    \/ \E symbol \in TickSymbols, price \in TickPrices : OnTick(symbol, price)
    \/ \E b \in Behaviours(strat) : StrategyStep(b)
    \/ \E fail \in BOOLEAN : OrderStep(fail)

Spec == Init /\ [][Next]_vars

----------------------------------------------------------------------------
(* Claims about the engine, checked under Spec *)

LastOrder == order_log[Len(order_log)]
LastError == error_log[Len(error_log)]

\* C1: after any sequence of on_tick calls the Order Log holds exactly one
\* entry per Order object that was instantiated: its length equals the number
\* of orders instantiated over the run.
C1_EveryInstantiatedOrderLogged ==
    pc = "idle" => Len(order_log) = instantiated

CallsMade ==
    IF pc = "idle" THEN Len(buffer) * NumStrategies
    ELSE IF pc = "strategy" THEN (Len(buffer) - 1) * NumStrategies + strat - 1
    ELSE (Len(buffer) - 1) * NumStrategies + strat

\* C3: generate_signals is invoked exactly once per observation and registered
\* strategy, in tick order and registration order, whatever raised before.
C3_EveryStrategyEveryTick ==
    gen_calls = [j \in 1..CallsMade |->
                    <<((j - 1) \div NumStrategies) + 1, ((j - 1) % NumStrategies) + 1>>]

C3_Witness ==
    /\ pc = "idle"
    /\ Len(buffer) = 2
    /\ Len(gen_calls) = 2 * NumStrategies
    /\ \E i \in 1..Len(error_log) :
          /\ error_log[i].kind = "strategy"
          /\ error_log[i].detail = "strategy failure"
          /\ error_log[i].timestamp = 1
          /\ error_log[i].strategy = Strategies[1]

\* C4: a strategy raising during signal generation adds exactly one Error Log
\* entry, with the strategy's identity and the tick's timestamp, and leaves
\* the Order Log and every position unchanged.
C4_StrategyErrorLogged ==
    [][(gen_calls' # gen_calls /\ last'.kind = "strategy_raised") =>
          /\ Len(error_log') = Len(error_log) + 1
          /\ SubSeq(error_log', 1, Len(error_log)) = error_log
          /\ error_log'[Len(error_log')].kind = "strategy"
          /\ error_log'[Len(error_log')].strategy = Strategies[strat]
          /\ error_log'[Len(error_log')].timestamp = tick.timestamp
          /\ order_log' = order_log
          /\ positions' = positions]_vars

C4_Witness ==
    /\ last.kind = "strategy_raised"
    /\ order_log # <<>>
    /\ \E s \in DOMAIN positions : positions[s].quantity > 0
    /\ LastError.kind = "strategy"

C6_InvalidOrderRejectedAndLogged ==
    (last.kind = "create_failed" /\ last.invalid # NoOrder) =>
        /\ order_log # <<>>
        /\ LastOrder = [last.invalid EXCEPT !.status = "REJECTED"]
        /\ error_log # <<>>
        /\ LastError.timestamp = last.invalid.timestamp
        /\ LastError.symbol = last.invalid.symbol
        /\ LastError.side = last.invalid.side
        /\ LastError.quantity = last.invalid.quantity

----------------------------------------------------------------------------
(* Claims about the ledger rules, checked under SpecLedger *)

Held(s) == fetch_current_position(all_positions, s)

ReconHeld(s) ==
    IF s \in DOMAIN recon.positions THEN recon.positions[s]
    ELSE [quantity |-> 0, avg_price |-> RZero]

\* C8: held quantities never go negative; a SELL takes off min(order quantity,
\* held quantity), so a SELL for at least what is held leaves 0, in the ledger
\* and in the reconstructor's position map.
C8_NoNegativeInventory ==
    /\ [](\A s \in Symbols : Held(s).total_shares >= 0 /\ ReconHeld(s).quantity >= 0)
    /\ [][\A o \in FillOrders :
            (fills' = Append(fills, o) /\ o.side = "SELL") =>
                LET h == Held(o.symbol).total_shares
                    r == ReconHeld(o.symbol).quantity
                IN  /\ all_positions'[o.symbol].total_shares = h - Min(o.quantity, h)
                    /\ recon'.positions[o.symbol].quantity = r - Min(o.quantity, r)
                    /\ o.quantity >= h => all_positions'[o.symbol].total_shares = 0
                    /\ o.quantity >= r => recon'.positions[o.symbol].quantity = 0]_vars

C8_Witness ==
    /\ Len(fills) = 2
    /\ fills[1] = [symbol |-> "X", side |-> "BUY", quantity |-> 1, price |-> 2]
    /\ fills[2].symbol = "X" /\ fills[2].side = "SELL" /\ fills[2].quantity = 3
    /\ Held("X").total_shares = 0
    /\ ReconHeld("X").quantity = 0

\* C9: in every ledger state a symbol with quantity 0 has average cost 0
\* (never traded, or sold down to zero), and a BUY onto a zero position gives
\* an average cost that is the price of that BUY alone.
C9_FlatMeansZeroCost ==
    /\ [](\A s \in Symbols : Held(s).total_shares = 0 => Held(s).average_price = RZero)
    /\ [][\A o \in FillOrders :
            (fills' = Append(fills, o) /\ o.side = "BUY"
                /\ Held(o.symbol).total_shares = 0) =>
                fetch_current_position(all_positions', o.symbol).average_price
                    = RInt(o.price)]_vars

C9_Witness ==
    /\ Len(fills) = 3
    /\ \A i \in 1..3 : fills[i].symbol = "X"
    /\ fills[1].side = "BUY" /\ fills[2].side = "SELL" /\ fills[3].side = "BUY"
    /\ fills[2].quantity >= fills[1].quantity
    /\ fills[3].price # fills[1].price
    /\ Held("X").average_price = RInt(fills[3].price)
    /\ Held("Y") = ZeroPosition

\* the fills on symbol s after the first k fills
FillsOn(s, k) == {i \in (k + 1)..Len(fills) : fills[i].symbol = s}

RECURSIVE SumQty(_)
SumQty(idx) ==
    IF idx = {} THEN 0
    ELSE LET i == CHOOSE x \in idx : TRUE
         IN  fills[i].quantity + SumQty(idx \ {i})

RECURSIVE SumPriceQty(_)
SumPriceQty(idx) ==
    IF idx = {} THEN 0
    ELSE LET i == CHOOSE x \in idx : TRUE
         IN  fills[i].price * fills[i].quantity + SumPriceQty(idx \ {i})

\* the quantity of s held after the first k fills, by the clipping rule
RECURSIVE NetQty(_, _)
NetQty(s, k) ==
    IF k = 0 THEN 0
    ELSE LET q == NetQty(s, k - 1)
             o == fills[k]
         IN  IF o.symbol # s THEN q
             ELSE IF o.side = "BUY" THEN q + o.quantity
             ELSE q - Min(o.quantity, q)

\* C10: after a sequence of BUY fills on a symbol that starts from a zero
\* position, average cost = sum(price_i * qty_i) / sum(qty_i) and quantity =
\* sum(qty_i), in the ledger and in the reconstructor.
C10_BuyAverageIsWeighted ==
    \A s \in Symbols, k \in 0..Len(fills) :
        (/\ NetQty(s, k) = 0
         /\ FillsOn(s, k) # {}
         /\ \A i \in FillsOn(s, k) : fills[i].side = "BUY") =>
            LET q == SumQty(FillsOn(s, k))
                avg == RDiv(RInt(SumPriceQty(FillsOn(s, k))), RInt(q))
            IN  /\ Held(s).total_shares = q
                /\ Held(s).average_price = avg
                /\ ReconHeld(s).quantity = q
                /\ ReconHeld(s).avg_price = avg

C10_Witness ==
    /\ Len(fills) = 3
    /\ fills[1] = [symbol |-> "X", side |-> "BUY", quantity |-> 1, price |-> 2]
    /\ fills[2] = [symbol |-> "Y", side |-> "BUY", quantity |-> 3, price |-> 5]
    /\ fills[3] = [symbol |-> "X", side |-> "BUY", quantity |-> 2, price |-> 5]
    /\ Held("X").average_price = <<4, 1>>
    /\ Held("X").total_shares = 3

----------------------------------------------------------------------------
(* models.py: Order, and executionn_engine.py: Makeorder *)

Raises(class, rule) == [kind |-> "raised", class |-> class, rule |-> rule, order |-> NoOrder]
Returns(order) == [kind |-> "order", class |-> "", rule |-> "", order |-> order]

\* Order.__init__ (models.py lines 48-53): self.quantity = quantity runs the
\* quantity setter, self.price = price the price setter, whose own
\* self.price = value calls the setter again until the recursion limit
OrderInit(symbol, quantity, price, side, status) ==
    IF quantity <= 0 THEN Raises("OrderError", "quantity")
    ELSE IF price < 0 THEN Raises("OrderError", "price")
    ELSE Raises("RecursionError", "price setter")

\* Makeorder(signal); positions is a name the module never binds: bound says
\* whether the caller's environment bound it, held is what it holds of symbol
Makeorder(signal, bound, held) ==
    IF Len(signal) # 4 THEN Raises("ValueError", "unpack")
    ELSE
    LET action == signal[1]
        symbol == signal[2]
        qty == signal[3]
        price == signal[4]
    IN  IF action \notin {"BUY", "SELL"} THEN Raises("OrderError", "side")
        ELSE IF qty <= 0 THEN Raises("OrderError", "quantity")
        ELSE IF price <= 0 THEN Raises("OrderError", "price")
        ELSE IF action = "SELL" /\ ~bound THEN Raises("NameError", "positions")
        ELSE IF action = "SELL" /\ held < qty
        THEN Raises("OrderError", "insufficient shares")
        ELSE OrderInit(symbol, qty, price, action, "NEW")

\* the engine's validation of one intent: _create_orders on a batch of one
EngineValidate(signal, t) ==
    LET r == _create_orders(<<signal>>, t)
    IN  IF r.raised THEN Raises("OrderError", "create") ELSE Returns(r.orders[1])

IntentSides == {"BUY", "SELL", "buy", "sell", "hold", "HOLD"}
IntentSymbols == {"X", ""}
IntentQuantities == {-1, 0, 1, 3}
IntentPrices == {-1, 0, 5}
IntentHoldings == {0, 2}

Intents ==
    {[signal |-> <<side, symbol, qty, price>>, bound |-> b, held |-> h] :
        side \in IntentSides, symbol \in IntentSymbols, qty \in IntentQuantities,
        price \in IntentPrices, b \in BOOLEAN, h \in IntentHoldings}

ValidatorTick == [timestamp |-> 1, symbol |-> "X", price |-> 4]

InitValidate ==
    /\ EngineIdle /\ LedgerEmpty /\ RunIdle /\ ReportIdle /\ ReporterIdle
    /\ intent \in Intents
    /\ outcome = NoOutcome

Validate ==
    /\ outcome = NoOutcome
    /\ outcome' = [kind |-> "done",
                   make |-> Makeorder(intent.signal, intent.bound, intent.held),
                   engine |-> EngineValidate(intent.signal, ValidatorTick)]
    /\ UNCHANGED <<intent, engine_vars, ledger_vars, run_vars, report_vars,
                   reporter_vars>>

NextValidate == Validate

SpecValidate == InitValidate /\ [][NextValidate]_vars

WellFormed(signal) ==
    /\ Upper(signal[1]) \in {"BUY", "SELL"}
    /\ signal[3] > 0
    /\ signal[4] > 0
    /\ signal[2] # ""

AcceptedAsNew(res, signal) ==
    /\ res.kind = "order"
    /\ res.order.status = "NEW"
    /\ res.order.side = Upper(signal[1])
    /\ res.order.symbol = signal[2]
    /\ res.order.quantity = signal[3]
    /\ res.order.price = signal[4]

\* C11: the validator returns a NEW order with the side upper-cased exactly
\* for the intents whose side is BUY or SELL after case normalisation, whose
\* quantity and price are > 0 and whose symbol is non-empty; every other
\* intent fails with OrderError.
C11_ValidatorAcceptsExactlyWellFormed ==
    outcome.kind = "done" =>
        IF WellFormed(intent.signal)
        THEN AcceptedAsNew(outcome.make, intent.signal)
        ELSE outcome.make.kind = "raised" /\ outcome.make.class = "OrderError"

\* C12: a well-formed SELL for more shares than are held passes validation and
\* gives a NEW order; it is never rejected for insufficient shares.
C12_OversellPassesValidation ==
    (/\ outcome.kind = "done"
     /\ WellFormed(intent.signal)
     /\ Upper(intent.signal[1]) = "SELL"
     /\ intent.signal[3] > intent.held) =>
        /\ AcceptedAsNew(outcome.engine, intent.signal)
        /\ AcceptedAsNew(outcome.make, intent.signal)
        /\ outcome.make.rule # "insufficient shares"

----------------------------------------------------------------------------
(* execution_engine.py: run *)

MaxMarket == 3
RunTimestamps == {1, 2}

RECURSIVE LexLe(_, _)
\* a <= b for two keys, each a sequence of integers compared position by
\* position, a proper prefix coming first (Python's order on str and tuple)
LexLe(a, b) ==
    IF a = <<>> THEN TRUE
    ELSE IF b = <<>> THEN FALSE
    ELSE IF Head(a) # Head(b) THEN Head(a) < Head(b)
    ELSE LexLe(Tail(a), Tail(b))

RECURSIVE InsertByKey(_, _)
\* pair p = <<key, item>> goes behind every pair whose key is <= its own
InsertByKey(done, p) ==
    IF done = <<>> THEN <<p>>
    ELSE IF LexLe(Head(done)[1], p[1])
    THEN <<Head(done)>> \o InsertByKey(Tail(done), p)
    ELSE <<p>> \o done

RECURSIVE SortedPairs(_)
\* sorted(iterable, key=...): stable, ascending
SortedPairs(pairs) ==
    IF pairs = <<>> THEN <<>>
    ELSE InsertByKey(SortedPairs(SubSeq(pairs, 1, Len(pairs) - 1)),
                     pairs[Len(pairs)])

Items(pairs) == [i \in 1..Len(pairs) |-> pairs[i][2]]

Reverse(seq) == [i \in 1..Len(seq) |-> seq[Len(seq) + 1 - i]]

\* a sort by timestamp that hands equal timestamps back last-in first
sorted_market_ties_reversed(m) ==
    Items(SortedPairs([i \in 1..Len(m) |->
                          <<<<Reverse(m)[i].timestamp>>, Reverse(m)[i]>>]))

\* the market handed on in the order it was given
market_as_given(m) == m

\* sorted(market, key=lambda t: t.timestamp)
sorted_market(m) ==
    Items(SortedPairs([i \in 1..Len(m) |-> <<<<m[i].timestamp>>, m[i]>>]))

MarketTicks == [timestamp : RunTimestamps, symbol : Symbols, price : TickPrices]

RECURSIVE SeqsUpTo(_, _)
SeqsUpTo(S, n) ==
    IF n = 0 THEN {<<>>}
    ELSE LET shorter == SeqsUpTo(S, n - 1)
         IN  shorter \cup {Append(q, x) : q \in shorter, x \in S}

Markets == SeqsUpTo(MarketTicks, MaxMarket)

InitRun ==
    /\ EngineIdle /\ LedgerEmpty /\ ValidatorIdle /\ ReportIdle /\ ReporterIdle
    /\ market \in Markets
    /\ queue = <<>>
    /\ run_pc = "ready"

\* run is entered: line 41 sorts the whole input before the first on_tick
Run ==
    /\ run_pc = "ready"
    /\ queue' = sorted_market(market)
    /\ run_pc' = "loop"
    /\ UNCHANGED <<market, engine_vars, ledger_vars, validator_vars,
                   report_vars, reporter_vars>>

\* line 42 for the next tick of the sorted list; the engine has no strategy
\* registered, so on_tick is lines 19-20 and a loop over nothing
RunTick ==
    /\ run_pc = "loop"
    /\ queue # <<>>
    /\ tick' = Head(queue)
    /\ buffer' = Append(buffer, Head(queue))
    /\ queue' = Tail(queue)
    /\ last' = [kind |-> "tick"]
    /\ UNCHANGED <<positions, order_log, error_log, pc, strat, pending,
                   instantiated, gen_calls, escaped>>
    /\ UNCHANGED <<market, run_pc, ledger_vars, validator_vars, report_vars,
                   reporter_vars>>

\* the for loop of line 41 is exhausted and run returns
RunReturn ==
    /\ run_pc = "loop"
    /\ queue = <<>>
    /\ run_pc' = "done"
    /\ UNCHANGED <<market, queue, engine_vars, ledger_vars, validator_vars,
                   report_vars, reporter_vars>>

NextRun == Run \/ RunTick \/ RunReturn

SpecRun == InitRun /\ [][NextRun]_vars

At(seq, t) == SelectSeq(seq, LAMBDA x : x.timestamp = t)

----------------------------------------------------------------------------
(* execution_engine.py: report *)

MaxReports == 2

\* a component of a returned snapshot is a new object holding the value it
\* was built with, or the engine's own object under another name
Copy(v) == [ref |-> FALSE, value |-> v]
Alias == [ref |-> TRUE, value |-> <<>>]
Deref(c, live) == IF c.ref THEN live ELSE c.value

\* the dict built for one entry of order_log, lines 47-54
ReportRecord(o) ==
    [time |-> IsoFormat(o.timestamp), symbol |-> o.symbol, side |-> o.side,
     qty |-> o.quantity, price |-> o.price, status |-> o.status]

ReportOrders(olog) == [i \in 1..Len(olog) |-> ReportRecord(olog[i])]

\* a report that hands out container.positions itself
report_live_positions(pos, olog, elog) ==
    [kind |-> "snapshot", positions |-> Alias,
     orders |-> Copy(ReportOrders(olog)), errors |-> Copy(elog)]

\* a report that hands out the errors on the first call only
report_errors_once(pos, olog, elog) ==
    [kind |-> "snapshot", positions |-> Copy(pos),
     orders |-> Copy(ReportOrders(olog)),
     errors |-> Copy(IF reports = 0 THEN elog ELSE <<>>)]

\* report(): a new dict of copied holdings, a new list of new dicts of
\* immutable values, a new list of the error strings
report(pos, olog, elog) ==
    [kind |-> "snapshot", positions |-> Copy(pos),
     orders |-> Copy(ReportOrders(olog)), errors |-> Copy(elog)]

\* what a caller holding snapshot snap reads from it when the engine's
\* objects are pos, olog and elog
ViewOf(snap, pos, olog, elog) ==
    [positions |-> Deref(snap.positions, pos),
     orders |-> Deref(snap.orders, ReportOrders(olog)),
     errors |-> Deref(snap.errors, elog)]

InitReport ==
    /\ EngineIdle /\ LedgerEmpty /\ ValidatorIdle /\ RunIdle /\ ReporterIdle
    /\ ReportIdle

\* a call of report() between two on_tick calls; taken remembers what the
\* snapshot read when it was returned, after how many ticks, and whether the
\* call before it was made after the same number of ticks
Report ==
    /\ pc = "idle"
    /\ reports < MaxReports
    /\ UNCHANGED <<engine_vars, ledger_vars, validator_vars, run_vars,
                   reporter_vars>>
    /\ snapshot' = report(positions, order_log, error_log)
    /\ taken' = [kind |-> "taken",
                 value |-> ViewOf(snapshot', positions', order_log', error_log'),
                 ticks |-> Len(buffer),
                 again |-> taken.kind = "taken" /\ taken.ticks = Len(buffer)]
    /\ reports' = reports + 1

\* the runs reported on: one symbol ticking, strategies that raise or return
\* at most one intent
ReportBehaviours(i) == {b \in Behaviours(i) : b.raises \/ Len(b.signals) <= 1}

NextReport ==
    \/ Report
    \/ \E price \in TickPrices : OnTick("X", price)
    \/ \E b \in ReportBehaviours(strat) : StrategyStep(b)
    \/ \E fail \in BOOLEAN : OrderStep(fail)

SpecReport == InitReport /\ [][NextReport]_vars

IsPrefix(a, b) == Len(a) <= Len(b) /\ a = SubSeq(b, 1, Len(a))

\* C15: a snapshot is independent of the engine: what it reads stays what it
\* read when report() returned however many on_tick calls follow, and its
\* orders and errors are the logs of that moment in collection order (the
\* logs only grow, so they are prefixes of the logs of every later state).
C15_SnapshotIndependent ==
    taken.kind = "taken" =>
        /\ ViewOf(snapshot, positions, order_log, error_log) = taken.value
        /\ IsPrefix(taken.value.orders, ReportOrders(order_log))
        /\ IsPrefix(taken.value.errors, error_log)

C15_Witness ==
    /\ taken.kind = "taken"
    /\ pc = "idle"
    /\ Len(buffer) > taken.ticks
    /\ taken.value.orders # <<>>
    /\ taken.value.errors # <<>>
    /\ Len(order_log) > Len(taken.value.orders)
    /\ Len(error_log) > Len(taken.value.errors)
    /\ positions # taken.value.positions

----------------------------------------------------------------------------
(* execution_engine.py: the positions object on_tick hands to strategies *)

\* line 20 binds positions to container.positions and line 24 passes that
\* object to every strategy of the tick: no copy, no read-only view
positions_argument == Alias

\* what a strategy holding the positions object may store in it during
\* generate_signals: a holding under a symbol
StrategyWrites ==
    {[symbol |-> "X", holding |-> [quantity |-> 9, avg_price |-> RInt(1)]],
     [symbol |-> "Y", holding |-> ZeroHolding]}

Written(pos, w) == (w.symbol :> w.holding) @@ pos

\* generate_signals stores w in its positions argument and returns no intent;
\* the ledger changes when the argument is the ledger's own object
WritingStrategyStep(w) ==
    /\ pc = "strategy"
    /\ gen_calls' = Append(gen_calls, <<tick.timestamp, strat>>)
    /\ positions' = IF positions_argument.ref THEN Written(positions, w)
                    ELSE positions
    /\ GoTo(strat + 1)
    /\ last' = [kind |-> "no_signals"]
    /\ UNCHANGED <<buffer, tick, order_log, error_log, pending, instantiated,
                   escaped>>
    /\ UNCHANGED ledger_vars
    /\ UNCHANGED aux_vars

NextTamper ==
    \/ \E price \in TickPrices : OnTick("X", price)
    \/ \E b \in ReportBehaviours(strat) : StrategyStep(b)
    \/ \E w \in StrategyWrites : WritingStrategyStep(w)
    \/ \E fail \in BOOLEAN : OrderStep(fail)

SpecTamper == Init /\ [][NextTamper]_vars

HoldingIn(pos, s) == IF s \in DOMAIN pos THEN pos[s] ELSE ZeroHolding

----------------------------------------------------------------------------
(* reporting.py: _calculate_portfolio_series on a whole order log *)

ReconStart(cap) ==
    [cash |-> RInt(cap), positions |-> <<>>, values |-> <<RInt(cap)>>]

\* sorted(orders, key=lambda x: x["time"]): the key is the isoformat string
sorted_orders(orders) ==
    Items(SortedPairs([i \in 1..Len(orders) |-> <<orders[i].time, orders[i]>>]))

RECURSIVE Replay(_, _)
\* the for loop of lines 109-145 over the sorted orders
Replay(st, orders) ==
    IF orders = <<>> THEN st
    ELSE Replay(ReconStep(st, Head(orders)), Tail(orders))

\* cash, positions and portfolio_values when the loop has ended; line 98
\* returns empty lists for an empty log
_calculate_portfolio_series(orders, cap) ==
    IF orders = <<>>
    THEN [cash |-> RInt(cap), positions |-> <<>>, values |-> <<>>]
    ELSE Replay(ReconStart(cap), sorted_orders(orders))

FilledOnly(orders) == SelectSeq(orders, LAMBDA o : o.status = "FILLED")

RECURSIVE LedgerAfter(_, _)
\* update_position of models.py applied to the orders of a log, in order
LedgerAfter(all, orders) ==
    IF orders = <<>> THEN all
    ELSE LedgerAfter(update_position(all, Head(orders)), Tail(orders))

Replayed == _calculate_portfolio_series(FilledOnly(ReportOrders(order_log)),
                                        initial_capital)

----------------------------------------------------------------------------
(* reporting.py: the reconstructor and the drawdown scan on order logs *)

MaxLog == 3
SmallCapital == 5
InitialCapitals == {SmallCapital, initial_capital}
ReconTimes == {2, 10}

ReconBodies ==
    {[symbol |-> "X", side |-> "BUY", qty |-> 3, price |-> 5],
     [symbol |-> "X", side |-> "BUY", qty |-> 1, price |-> 2],
     [symbol |-> "X", side |-> "SELL", qty |-> 3, price |-> 2],
     [symbol |-> "X", side |-> "SELL", qty |-> 1, price |-> 5],
     [symbol |-> "Y", side |-> "BUY", qty |-> 1, price |-> 2]}

RejectedBodies == {b \in ReconBodies : b.symbol = "X" /\ b.qty = 3}

LogRecord(b, t, status) ==
    [time |-> IsoFormat(t), symbol |-> b.symbol, side |-> b.side, qty |-> b.qty,
     price |-> b.price, status |-> status]

\* the orders on X FILLED at either time, the order on Y and the REJECTED
\* orders at the earlier time
ReconOrders ==
    {LogRecord(b, t, "FILLED") : b \in {x \in ReconBodies : x.symbol = "X"},
                                t \in ReconTimes}
        \cup {LogRecord(b, 2, "FILLED") : b \in {y \in ReconBodies : y.symbol = "Y"}}
        \cup {LogRecord(b, 2, "REJECTED") : b \in RejectedBodies}

RMax(a, b) == IF RLt(a, b) THEN b ELSE a

RECURSIVE DrawdownScan(_, _, _, _, _)
\* the loop of lines 166-174 over the values still to scan
DrawdownScan(values, peak, max_dd, current, longest) ==
    IF values = <<>> THEN [max_dd |-> max_dd, duration |-> longest]
    ELSE LET value == Head(values)
         IN  IF RLt(peak, value)
             THEN DrawdownScan(Tail(values), value, max_dd, 0, longest)
             ELSE DrawdownScan(Tail(values), peak,
                               RMax(max_dd, RDiv(RSub(peak, value), peak)),
                               current + 1,
                               IF longest < current + 1 THEN current + 1 ELSE longest)

_calculate_max_drawdown(values) ==
    IF values = <<>> THEN [max_dd |-> RZero, duration |-> 0]
    ELSE DrawdownScan(values, values[1], RZero, 0, 0)

RECURSIVE ReplaySteps(_, _)
\* the reconstructor's state before the first order and after each order
ReplaySteps(st, orders) ==
    IF orders = <<>> THEN <<st>>
    ELSE <<st>> \o ReplaySteps(ReconStep(st, Head(orders)), Tail(orders))

\* reporting.py: _calculate_trade_statistics

TradeStart == [position |-> 0, avg_price |-> RZero, pnls |-> <<>>]

\* the loop body realising the whole order quantity on a close
TradeStepFullQuantity(st, order) ==
    LET position == st.position
        avg_price == st.avg_price
        qty == order.qty
        price == RInt(order.price)
    IN  IF order.side = "BUY"
        THEN IF position >= 0
             THEN LET new_position == position + qty
                  IN  [st EXCEPT
                         !.position = new_position,
                         !.avg_price =
                             IF new_position > 0
                             THEN RDiv(RAdd(RMul(avg_price, RInt(position)),
                                            RMul(price, RInt(qty))),
                                       RInt(new_position))
                             ELSE avg_price]
             ELSE LET cover_qty == Min(qty, Abs(position))
                      pnl == RMul(RInt(qty), RSub(avg_price, price))
                  IN  [position |-> position + cover_qty,
                       avg_price |-> IF position + cover_qty = 0 THEN RZero
                                     ELSE avg_price,
                       pnls |-> Append(st.pnls, pnl)]
        ELSE IF order.side = "SELL"
        THEN IF position <= 0
             THEN LET new_position == position - qty
                  IN  [st EXCEPT
                         !.position = new_position,
                         !.avg_price =
                             IF new_position < 0
                             THEN RDiv(RAdd(RMul(avg_price, RInt(Abs(position))),
                                            RMul(price, RInt(qty))),
                                       RInt(Abs(new_position)))
                             ELSE avg_price]
             ELSE LET close_qty == Min(qty, position)
                      pnl == RMul(RInt(qty), RSub(price, avg_price))
                  IN  [position |-> position - close_qty,
                       avg_price |-> IF position - close_qty = 0 THEN RZero
                                     ELSE avg_price,
                       pnls |-> Append(st.pnls, pnl)]
        ELSE st

\* one iteration of the loop over a symbol's orders, lines 211-238
TradeStep(st, order) ==
    LET position == st.position
        avg_price == st.avg_price
        qty == order.qty
        price == RInt(order.price)
    IN  IF order.side = "BUY"
        THEN IF position >= 0
             THEN LET new_position == position + qty
                  IN  [st EXCEPT
                         !.position = new_position,
                         !.avg_price =
                             IF new_position > 0
                             THEN RDiv(RAdd(RMul(avg_price, RInt(position)),
                                            RMul(price, RInt(qty))),
                                       RInt(new_position))
                             ELSE avg_price]
             ELSE LET cover_qty == Min(qty, Abs(position))
                      pnl == RMul(RInt(cover_qty), RSub(avg_price, price))
                  IN  [position |-> position + cover_qty,
                       avg_price |-> IF position + cover_qty = 0 THEN RZero
                                     ELSE avg_price,
                       pnls |-> Append(st.pnls, pnl)]
        ELSE IF order.side = "SELL"
        THEN IF position <= 0
             THEN LET new_position == position - qty
                  IN  [st EXCEPT
                         !.position = new_position,
                         !.avg_price =
                             IF new_position < 0
                             THEN RDiv(RAdd(RMul(avg_price, RInt(Abs(position))),
                                            RMul(price, RInt(qty))),
                                       RInt(Abs(new_position)))
                             ELSE avg_price]
             ELSE LET close_qty == Min(qty, position)
                      pnl == RMul(RInt(close_qty), RSub(price, avg_price))
                  IN  [position |-> position - close_qty,
                       avg_price |-> IF position - close_qty = 0 THEN RZero
                                     ELSE avg_price,
                       pnls |-> Append(st.pnls, pnl)]
        ELSE st

\* a local variable: value is computed once and body reads it under one name
Local(value, body(_)) == CHOOSE result \in {body(x) : x \in {value}} : TRUE

RECURSIVE FirstSeen(_, _)
\* the keys of symbol_orders in insertion order (lines 196-201)
FirstSeen(orders, seen) ==
    IF orders = <<>> THEN <<>>
    ELSE IF Head(orders).symbol \in seen THEN FirstSeen(Tail(orders), seen)
    ELSE <<Head(orders).symbol>>
             \o FirstSeen(Tail(orders), seen \cup {Head(orders).symbol})

OrdersOf(orders, symbol) == SelectSeq(orders, LAMBDA o : o.symbol = symbol)

RECURSIVE SymbolEvents(_, _)
\* the orders of one symbol with the loop's state before and after each
SymbolEvents(st, orders) ==
    IF orders = <<>> THEN <<>>
    ELSE Local(TradeStep(st, Head(orders)),
               LAMBDA after :
                   <<[order |-> Head(orders), before |-> st, after |-> after]>>
                       \o SymbolEvents(after, Tail(orders)))

RECURSIVE TradeEvents(_, _, _)
\* the loop of lines 204-238: symbol by symbol, each from a flat position,
\* each symbol's list sorted by time, trade_pnls shared by all
TradeEvents(symbols, filled, pnls) ==
    IF symbols = <<>> THEN <<>>
    ELSE Local(SymbolEvents([TradeStart EXCEPT !.pnls = pnls],
                            sorted_orders(OrdersOf(filled, Head(symbols)))),
               LAMBDA events :
                   events \o TradeEvents(Tail(symbols), filled,
                                         IF events = <<>> THEN pnls
                                         ELSE events[Len(events)].after.pnls))

EventsOf(orders) ==
    TradeEvents(FirstSeen(FilledOnly(orders), {}), FilledOnly(orders), <<>>)

trade_pnls(orders) ==
    Local(EventsOf(orders),
          LAMBDA events : IF events = <<>> THEN <<>>
                          ELSE events[Len(events)].after.pnls)

RECURSIVE RSum(_)
RSum(seq) == IF seq = <<>> THEN RZero ELSE RAdd(Head(seq), RSum(Tail(seq)))

RECURSIVE RMaxOf(_)
RMaxOf(seq) == IF Len(seq) = 1 THEN seq[1] ELSE RMax(Head(seq), RMaxOf(Tail(seq)))

RMin(a, b) == IF RLt(b, a) THEN b ELSE a

RECURSIVE RMinOf(_)
RMinOf(seq) == IF Len(seq) = 1 THEN seq[1] ELSE RMin(Head(seq), RMinOf(Tail(seq)))

RAbs(a) == IF RLt(a, RZero) THEN RSub(RZero, a) ELSE a

\* a float that is a number, and float('inf')
Finite(r) == [inf |-> FALSE, value |-> r]
Infinity == [inf |-> TRUE, value |-> RZero]

\* line 256 answering 0.0 where it answers float('inf')
profit_factor_without_infinity(gross_profit, gross_loss) ==
    IF RLt(RZero, gross_loss) THEN Finite(RDiv(gross_profit, gross_loss))
    ELSE Finite(RZero)

\* line 256
profit_factor(gross_profit, gross_loss) ==
    IF RLt(RZero, gross_loss) THEN Finite(RDiv(gross_profit, gross_loss))
    ELSE IF RLt(RZero, gross_profit) THEN Infinity
    ELSE Finite(RZero)

ZeroStatistics ==
    [win_rate |-> RZero, profit_factor |-> Finite(RZero), total_trades |-> 0,
     winning_trades |-> 0, losing_trades |-> 0, avg_win |-> RZero,
     avg_loss |-> RZero, largest_win |-> RZero, largest_loss |-> RZero]

_calculate_trade_statistics(orders) ==
    IF FilledOnly(orders) = <<>> THEN ZeroStatistics
    ELSE
    Local(trade_pnls(orders), LAMBDA pnls :
    LET winning == SelectSeq(pnls, LAMBDA pnl : RLt(RZero, pnl))
        losing == SelectSeq(pnls, LAMBDA pnl : RLt(pnl, RZero))
    IN  [win_rate |-> IF Len(pnls) > 0 THEN RDiv(RInt(Len(winning)), RInt(Len(pnls)))
                      ELSE RZero,
         profit_factor |-> profit_factor(RSum(winning), RAbs(RSum(losing))),
         total_trades |-> Len(pnls),
         winning_trades |-> Len(winning),
         losing_trades |-> Len(losing),
         avg_win |-> IF winning # <<>> THEN RDiv(RSum(winning), RInt(Len(winning)))
                     ELSE RZero,
         avg_loss |-> IF losing # <<>> THEN RDiv(RSum(losing), RInt(Len(losing)))
                      ELSE RZero,
         largest_win |-> IF winning # <<>> THEN RMaxOf(winning) ELSE RZero,
         largest_loss |-> IF losing # <<>> THEN RMinOf(losing) ELSE RZero])

\* reporting.py: calculate_performance

trading_days_per_year == 252

\* a float the model computes, and one it only names by how it is computed
\* (a fractional power, a standard deviation, a ratio of such)
Real(r) == [kind |-> "real", value |-> r, of |-> <<>>]
Symbolic(kind, args) == [kind |-> kind, value |-> RZero, of |-> args]

RECURSIVE PeriodReturns(_)
\* the loop of lines 148-152
PeriodReturns(values) ==
    IF Len(values) < 2 THEN <<>>
    ELSE LET front == SubSeq(values, 1, Len(values) - 1)
             prev == values[Len(values) - 1]
             value == values[Len(values)]
         IN  IF prev # RZero
             THEN Append(PeriodReturns(front), RDiv(RSub(value, prev), prev))
             ELSE PeriodReturns(front)

\* (portfolio_values[-1] / initial_capital) ** (1 / years) - 1, line 63
annualized_return(values, cap) ==
    LET base == RDiv(values[Len(values)], RInt(cap))
        exponent == RDiv(RInt(trading_days_per_year), RInt(Len(values)))
    IN  IF base = RInt(1) THEN Real(RZero)
        ELSE IF base = RZero THEN Real(RInt(-1))
        ELSE Symbolic("power", <<base, exponent>>)

\* statistics.stdev(returns) * math.sqrt(252) if len(returns) > 1 else 0
volatility(returns) ==
    IF Len(returns) > 1 /\ \E i \in 1..Len(returns) : returns[i] # returns[1]
    THEN Symbolic("stdev", returns)
    ELSE Real(RZero)

\* excess_return / volatility if volatility > 0 else 0
sharpe_ratio(annualized, vol) ==
    IF vol.kind = "stdev" THEN Symbolic("ratio", <<annualized, vol>>)
    ELSE Real(RZero)

_empty_metrics ==
    [total_return |-> RZero, annualized_return |-> Real(RZero),
     sharpe_ratio |-> Real(RZero), max_drawdown |-> RZero,
     max_drawdown_duration |-> 0, volatility |-> Real(RZero),
     win_rate |-> RZero, profit_factor |-> Finite(RZero), total_trades |-> 0,
     winning_trades |-> 0, losing_trades |-> 0, avg_win |-> RZero,
     avg_loss |-> RZero, largest_win |-> RZero, largest_loss |-> RZero]

calculate_performance(orders, cap) ==
    Local(_calculate_portfolio_series(orders, cap).values, LAMBDA values :
        IF values = <<>> THEN _empty_metrics
        ELSE
        Local(_calculate_trade_statistics(orders), LAMBDA trade_stats :
        LET annualized == annualized_return(values, cap)
            vol == volatility(PeriodReturns(values))
            drawdown == _calculate_max_drawdown(values)
        IN  [total_return |-> RDiv(RSub(values[Len(values)], RInt(cap)), RInt(cap)),
             annualized_return |-> annualized,
             sharpe_ratio |-> sharpe_ratio(annualized, vol),
             max_drawdown |-> drawdown.max_dd,
             max_drawdown_duration |-> drawdown.duration,
             volatility |-> vol,
             win_rate |-> trade_stats.win_rate,
             profit_factor |-> trade_stats.profit_factor,
             total_trades |-> trade_stats.total_trades,
             winning_trades |-> trade_stats.winning_trades,
             losing_trades |-> trade_stats.losing_trades,
             avg_win |-> trade_stats.avg_win,
             avg_loss |-> trade_stats.avg_loss,
             largest_win |-> trade_stats.largest_win,
             largest_loss |-> trade_stats.largest_loss]))

InitRecon ==
    /\ EngineIdle /\ LedgerEmpty /\ ValidatorIdle /\ RunIdle /\ ReportIdle
    /\ capital \in InitialCapitals
    /\ rlog \in SeqsUpTo(ReconOrders, MaxLog)
    /\ perf = NoOutcome

\* calculate_performance with what it computes on the way: the sorted log,
\* the reconstructor's states, the series, the trade events and the metrics
Calculate ==
    /\ perf = NoOutcome
    /\ LET series == _calculate_portfolio_series(rlog, capital)
       IN  perf' = [kind |-> "done",
                    sorted |-> sorted_orders(rlog),
                    steps |-> ReplaySteps(ReconStart(capital), sorted_orders(rlog)),
                    cash |-> series.cash,
                    positions |-> series.positions,
                    values |-> series.values,
                    max_drawdown |-> _calculate_max_drawdown(series.values).max_dd,
                    events |-> EventsOf(rlog),
                    pnls |-> trade_pnls(rlog),
                    statistics |-> _calculate_trade_statistics(rlog),
                    metrics |-> calculate_performance(rlog, capital)]
    /\ UNCHANGED <<capital, rlog, engine_vars, ledger_vars, validator_vars,
                   run_vars, report_vars>>

NextRecon == Calculate

SpecRecon == InitRecon /\ [][NextRecon]_vars

NumFilled(orders) == Cardinality({i \in 1..Len(orders) : orders[i].status = "FILLED"})

WithTime(orders, t) == SelectSeq(orders, LAMBDA o : o.time = IsoFormat(t))

\* C18: the reconstructor replays the FILLED orders only, by timestamp with
\* ties in log order: a non-empty log gives 1 + (number of FILLED orders)
\* values, the first one the initial cash; a REJECTED order adds no value and
\* leaves cash and positions; an empty log gives an empty series.
C18_ReplaysFilledOrdersOnly ==
    perf.kind = "done" =>
        /\ rlog = <<>> => perf.values = <<>>
        /\ rlog # <<>> =>
            /\ Len(perf.values) = 1 + NumFilled(rlog)
            /\ perf.values[1] = RInt(capital)
            /\ perf.steps[Len(perf.steps)]
                   = [cash |-> perf.cash, positions |-> perf.positions,
                      values |-> perf.values]
            /\ Replay(ReconStart(capital), FilledOnly(perf.sorted)).values
                   = perf.values
        /\ Len(perf.sorted) = Len(rlog)
        /\ \A i, j \in 1..Len(perf.sorted) :
               i < j => LexLe(perf.sorted[i].time, perf.sorted[j].time)
        /\ \A t \in ReconTimes : WithTime(perf.sorted, t) = WithTime(rlog, t)
        /\ \A i \in 1..Len(perf.sorted) :
               perf.sorted[i].status # "FILLED" => perf.steps[i + 1] = perf.steps[i]

C18_Witness ==
    /\ perf.kind = "done"
    /\ Len(rlog) = 3
    /\ rlog[1].time = IsoFormat(10)
    /\ rlog[2].time = IsoFormat(2)
    /\ rlog[3].time = IsoFormat(2)
    /\ rlog[2].status = "REJECTED"
    /\ rlog[3].status = "FILLED"
    /\ rlog[1].status = "FILLED"
    /\ Len(perf.values) = 3
    /\ perf.values[3] # perf.values[1]

HeldBefore(i) == HoldingIn(perf.steps[i].positions, perf.sorted[i].symbol).quantity

ProceedsOf(qty, price) == RMul(RInt(qty), RInt(price))

\* C19: in the reconstructor a FILLED BUY of qty at price takes qty * price off
\* the cash and a FILLED SELL of qty at price adds qty * price, qty being the
\* order's quantity, also for a SELL of more than is held.
C19_CashMovesByOrderQuantity ==
    perf.kind = "done" =>
        \A i \in 1..Len(perf.sorted) :
            LET o == perf.sorted[i]
            IN  o.status = "FILLED" =>
                    perf.steps[i + 1].cash =
                        IF o.side = "BUY"
                        THEN RSub(perf.steps[i].cash, ProceedsOf(o.qty, o.price))
                        ELSE RAdd(perf.steps[i].cash, ProceedsOf(o.qty, o.price))

\* C19 as the code has it: a FILLED BUY takes qty * price off the cash; a
\* FILLED SELL adds min(qty, held) * price, held being the reconstructed
\* quantity of the symbol before the order.
C19_CashMovesBySoldQuantity ==
    perf.kind = "done" =>
        \A i \in 1..Len(perf.sorted) :
            LET o == perf.sorted[i]
            IN  o.status = "FILLED" =>
                    perf.steps[i + 1].cash =
                        IF o.side = "BUY"
                        THEN RSub(perf.steps[i].cash, ProceedsOf(o.qty, o.price))
                        ELSE RAdd(perf.steps[i].cash,
                                  ProceedsOf(Min(o.qty, HeldBefore(i)), o.price))

C19_Witness ==
    /\ perf.kind = "done"
    /\ \E i \in 1..Len(perf.sorted) :
           /\ perf.sorted[i].status = "FILLED"
           /\ perf.sorted[i].side = "SELL"
           /\ HeldBefore(i) > 0
           /\ perf.sorted[i].qty > HeldBefore(i)
    /\ \E i \in 1..Len(perf.sorted) :
           perf.sorted[i].status = "FILLED" /\ perf.sorted[i].side = "BUY"

Prefix(seq, k) == SubSeq(seq, 1, k)

MaxDrawdownOf(values) == _calculate_max_drawdown(values).max_dd

\* C20: for every value series the reconstructor produces from an order log
\* with initial cash > 0, max_drawdown is in [0,1], does not decrease when the
\* series is extended by further points, and is 0 when the series never falls.
C20_MaxDrawdownInUnitInterval ==
    perf.kind = "done" =>
        /\ RLe(RZero, perf.max_drawdown)
        /\ RLe(perf.max_drawdown, RInt(1))
        /\ \A k \in 0..(Len(perf.values) - 1) :
               RLe(MaxDrawdownOf(Prefix(perf.values, k)),
                   MaxDrawdownOf(Prefix(perf.values, k + 1)))
        /\ (\A k \in 1..(Len(perf.values) - 1) :
                RLe(perf.values[k], perf.values[k + 1]))
               => perf.max_drawdown = RZero

----------------------------------------------------------------------------
(* reporting.py: trade-level statistics on order logs *)

MaxTrades == 3

TradeBodies ==
    {[symbol |-> "X", side |-> "BUY", qty |-> 3, price |-> 4],
     [symbol |-> "X", side |-> "BUY", qty |-> 1, price |-> 2],
     [symbol |-> "X", side |-> "SELL", qty |-> 1, price |-> 5],
     [symbol |-> "X", side |-> "SELL", qty |-> 3, price |-> 2]}

\* the orders on X FILLED at either time, a BUY and a later SELL on Y
TradeOrders ==
    {LogRecord(b, t, "FILLED") : b \in TradeBodies, t \in ReconTimes}
        \cup {LogRecord([symbol |-> "Y", side |-> "BUY", qty |-> 1, price |-> 2],
                        2, "FILLED"),
              LogRecord([symbol |-> "Y", side |-> "SELL", qty |-> 1, price |-> 5],
                        10, "FILLED")}

InitTrades ==
    /\ EngineIdle /\ LedgerEmpty /\ ValidatorIdle /\ RunIdle /\ ReportIdle
    /\ capital = initial_capital
    /\ rlog \in SeqsUpTo(TradeOrders, MaxTrades)
    /\ perf = NoOutcome

SpecTrades == InitTrades /\ [][NextRecon]_vars

Wins(pnls) == SelectSeq(pnls, LAMBDA pnl : RLt(RZero, pnl))
Losses(pnls) == SelectSeq(pnls, LAMBDA pnl : RLt(pnl, RZero))

\* C22: profit_factor is gross profit / gross loss when there is a losing
\* trade, +infinity when there are winning trades and no losing trade, and 0
\* when there is neither (also when every realized P&L is exactly 0).
C22_ProfitFactorCases ==
    perf.kind = "done" =>
        LET wins == Wins(perf.pnls)
            losses == Losses(perf.pnls)
        IN  perf.statistics.profit_factor =
                IF losses # <<>>
                THEN Finite(RDiv(RSum(wins), RSub(RZero, RSum(losses))))
                ELSE IF wins # <<>> THEN Infinity
                ELSE Finite(RZero)

C22_Witness ==
    /\ perf.kind = "done"
    /\ Wins(perf.pnls) # <<>>
    /\ Losses(perf.pnls) # <<>>
    /\ ~perf.statistics.profit_factor.inf
    /\ RLt(RZero, perf.statistics.profit_factor.value)

ClosesLong(e) == e.order.side = "SELL" /\ e.before.position > 0
ClosesShort(e) == e.order.side = "BUY" /\ e.before.position < 0
Closes(e) == ClosesLong(e) \/ ClosesShort(e)

\* the running position of the event's symbol left by the events before it
PositionBefore(events, k) ==
    LET earlier == {j \in 1..(k - 1) : events[j].order.symbol = events[k].order.symbol}
    IN  IF earlier = {} THEN 0
        ELSE events[CHOOSE j \in earlier : \A i \in earlier : i <= j].after.position

\* C23: per symbol, a FILLED SELL while the running position is positive adds
\* one realized P&L of min(qty, position) * (fill price - average entry), a
\* FILLED BUY while it is negative one of min(qty, |position|) * (average
\* entry - fill price), an order that opens or adds exposure adds none, and
\* total_trades is the number of closing events.
C23_ClosingEventsRealisePnl ==
    perf.kind = "done" =>
        /\ \A k \in 1..Len(perf.events) :
            LET e == perf.events[k]
                fill == RInt(e.order.price)
                avg == e.before.avg_price
            IN  /\ e.before.position = PositionBefore(perf.events, k)
                /\ e.after.pnls =
                       IF ClosesLong(e)
                       THEN Append(e.before.pnls,
                                   RMul(RInt(Min(e.order.qty, e.before.position)),
                                        RSub(fill, avg)))
                       ELSE IF ClosesShort(e)
                       THEN Append(e.before.pnls,
                                   RMul(RInt(Min(e.order.qty, Abs(e.before.position))),
                                        RSub(avg, fill)))
                       ELSE e.before.pnls
        /\ perf.statistics.total_trades
               = Cardinality({k \in 1..Len(perf.events) : Closes(perf.events[k])})

C23_Witness ==
    /\ perf.kind = "done"
    /\ \E k \in 1..Len(perf.events) :
           /\ ClosesLong(perf.events[k])
           /\ perf.events[k].order.qty > perf.events[k].before.position
    /\ \E k \in 1..Len(perf.events) : perf.events[k].order.symbol = "Y"
    /\ perf.statistics.total_trades = 1

\* C24: when an order's quantity exceeds the exposure it closes, the
\* remainder opens exposure on the other side: the running position after
\* the order is the old position minus (SELL) or plus (BUY) the whole order
\* quantity, and the average entry price is the fill price.
C24_RemainderOpensOtherSide ==
    perf.kind = "done" =>
        \A k \in 1..Len(perf.events) :
            LET e == perf.events[k]
            IN  (Closes(e) /\ e.order.qty > Abs(e.before.position)) =>
                    /\ e.after.position =
                           IF e.order.side = "SELL"
                           THEN e.before.position - e.order.qty
                           ELSE e.before.position + e.order.qty
                    /\ e.after.avg_price = RInt(e.order.price)

----------------------------------------------------------------------------
(* reporting.py: the metrics of logs without a closing trade *)

NoClosingTrade(events) == \A k \in 1..Len(events) : ~Closes(events[k])

\* C21: for an empty order log, for a log whose orders are all REJECTED and
\* for a log with FILLED orders but no closing trade, calculate_performance
\* returns a metrics object whose every field is 0, max_drawdown_duration and
\* the trade counts included.
C21_EmptyCasesAllZero ==
    (perf.kind = "done" /\ NoClosingTrade(perf.events)) =>
        perf.metrics = _empty_metrics

----------------------------------------------------------------------------
(* execution_engine.py: run with one strategy that buys dips and sells rises *)

ScenarioTicks ==
    {[timestamp |-> 1, symbol |-> "X", price |-> 100],
     [timestamp |-> 2, symbol |-> "X", price |-> 99],
     [timestamp |-> 3, symbol |-> "X", price |-> 101],
     [timestamp |-> 4, symbol |-> "X", price |-> 98]}

\* the four observations handed to run in every order
ScenarioMarkets ==
    {m \in [1..Cardinality(ScenarioTicks) -> ScenarioTicks] :
        \A i, j \in DOMAIN m : i # j => m[i] # m[j]}

\* generate_signals of the strategy: BUY 1 when the price is below the one of
\* the tick before, SELL everything held when it is above and something is
\* held; seen is the strategy's window, the ticks it was given so far
dip_signals(t, seen, pos) ==
    IF Len(seen) < 2 THEN <<>>
    ELSE LET before == seen[Len(seen) - 1].price
             held == HoldingIn(pos, t.symbol).quantity
         IN  IF t.price < before THEN <<(<<"BUY", t.symbol, 1>>)>>
             ELSE IF t.price > before /\ held > 0
             THEN <<(<<"SELL", t.symbol, held, t.price>>)>>
             ELSE <<>>

RECURSIVE HandleAll(_, _, _)
\* the loop over orders, lines 29-36, with random.random() never below 0.03
HandleAll(orders, st, t) ==
    IF orders = <<>> THEN st
    ELSE LET h == HandleOrder(Head(orders), FALSE, st.positions, t)
         IN  HandleAll(Tail(orders),
                       [positions |-> h.positions,
                        order_log |-> Append(st.order_log, h.order),
                        error_log |-> st.error_log \o h.errors],
                       t)

\* on_tick of an engine whose only strategy is the one above
on_tick_dip(t, seen, st) ==
    LET r == _create_orders(dip_signals(t, seen, st.positions), t)
    IN  IF r.raised
        THEN [st EXCEPT !.error_log =
                 Append(st.error_log,
                        [StrategyErrorEntry(t, 1, "This order is not valid")
                            EXCEPT !.strategy = "DipBuyer"])]
        ELSE HandleAll(r.orders, st, t)

InitScenario ==
    /\ EngineIdle /\ LedgerEmpty /\ ValidatorIdle /\ ReportIdle /\ ReporterIdle
    /\ market \in ScenarioMarkets
    /\ queue = <<>>
    /\ run_pc = "ready"

\* line 42 for the next tick of the sorted list
ScenarioTick ==
    /\ run_pc = "loop"
    /\ queue # <<>>
    /\ tick' = Head(queue)
    /\ buffer' = Append(buffer, Head(queue))
    /\ queue' = Tail(queue)
    /\ LET after == on_tick_dip(Head(queue), buffer',
                                [positions |-> positions, order_log |-> order_log,
                                 error_log |-> error_log])
       IN  /\ positions' = after.positions
           /\ order_log' = after.order_log
           /\ error_log' = after.error_log
           /\ instantiated' = instantiated + Len(after.order_log) - Len(order_log)
    /\ gen_calls' = Append(gen_calls, <<Head(queue).timestamp, 1>>)
    /\ last' = [kind |-> "tick"]
    /\ UNCHANGED <<pc, strat, pending, escaped>>
    /\ UNCHANGED <<market, run_pc, ledger_vars, validator_vars, report_vars,
                   reporter_vars>>

NextScenario == Run \/ ScenarioTick \/ RunReturn

SpecScenario == InitScenario /\ [][NextScenario]_vars

RECURSIVE NetFilled(_, _)
\* bought minus sold over the FILLED orders of a log on a symbol, a SELL
\* selling what is held at most
NetFilled(olog, symbol) ==
    IF olog = <<>> THEN 0
    ELSE LET o == olog[Len(olog)]
             net == NetFilled(SubSeq(olog, 1, Len(olog) - 1), symbol)
         IN  IF o.status # "FILLED" \/ o.symbol # symbol THEN net
             ELSE IF o.side = "BUY" THEN net + o.quantity
             ELSE net - Min(o.quantity, net)

ScenarioLine(o) == <<o.timestamp, o.side, o.quantity, o.price, o.status>>

----------------------------------------------------------------------------
(* models.py: OrderError, and what tells one validation failure from another *)

\* str(OrderError(error)): __init__ hands a fixed text to Exception and drops
\* its argument (lines 31-33)
OrderErrorStr(error) == "This order is not valid"

\* the class and the text of a raised exception; rule is the argument the
\* raise statement gave to the constructor
Observable(res) ==
    <<res.class, IF res.class = "OrderError" THEN OrderErrorStr(res.rule) ELSE res.rule>>

\* the error log entry on_tick writes when _create_orders raises OrderError
\* built with the text error (line 38)
LoggedDetail(error) ==
    LogStrategyError(<<>>, ValidatorTick, 1, OrderErrorStr(error))[1]

ViolatedRules(signal) ==
    {r \in {"side", "quantity", "price", "symbol"} :
        \/ r = "side" /\ Upper(signal[1]) \notin {"BUY", "SELL"}
        \/ r = "quantity" /\ signal[3] <= 0
        \/ r = "price" /\ signal[4] <= 0
        \/ r = "symbol" /\ signal[2] = ""}

Violates(signal, rule) == ViolatedRules(signal) = {rule}

\* C26: each validation rule fails with its own OrderError condition: the
\* error raised, and the detail recorded in the error log, for an intent
\* breaking one rule differ from those for an intent breaking another rule.
C26_RulesFailDistinguishably ==
    outcome.kind = "done" =>
        \A rule \in ViolatedRules(intent.signal), other \in Intents :
            (/\ Violates(intent.signal, rule)
             /\ Cardinality(ViolatedRules(other.signal)) = 1
             /\ ~Violates(other.signal, rule)
             /\ other.bound = intent.bound /\ other.held = intent.held) =>
                /\ Observable(outcome.make)
                       # Observable(Makeorder(other.signal, other.bound, other.held))
                /\ \A r2 \in ViolatedRules(other.signal) :
                       LoggedDetail(rule) # LoggedDetail(r2)

----------------------------------------------------------------------------
(* Isolation of one invalid intent inside a batch, checked under Spec *)

\* the Order that line 69 builds from one intent of three or four fields
IntentOrder(s, t) ==
    Order(Upper(s[1]), s[2], s[3], IF Len(s) = 3 THEN t.price ELSE s[4], t.timestamp)

\* an intent that passes lines 62-70 on its own
ValidIntent(s, t) == Len(s) \in {3, 4} /\ ~ValidateRaises(IntentOrder(s, t))

\* the order of intent s is in the log, in a terminal status
LoggedFrom(log, s, t) ==
    \E i \in 1..Len(log) :
        \E status \in {"FILLED", "REJECTED"} :
            log[i] = [IntentOrder(s, t) EXCEPT !.status = status]

\* C27: when a strategy returns several intents on one tick and one of them
\* is invalid or has a bad shape, every other valid intent of that batch,
\* before or after the invalid one, is still executed and appended to the
\* Order Log by the time the loop leaves that strategy.
C27_BatchFailureIsolated ==
    [][\A b \in Behaviours(strat) :
          (/\ StrategyStep(b)
           /\ ~b.raises
           /\ _create_orders(b.signals, tick).raised) =>
              \A k \in 1..Len(b.signals) :
                  ValidIntent(b.signals[k], tick) =>
                      LoggedFrom(order_log', b.signals[k], tick)]_vars

----------------------------------------------------------------------------
(* execution_engine.py: run with the strategies registered *)

MaxRunTicks == 2

RunEngineTicks == [timestamp : RunTimestamps, symbol : {"X"}, price : TickPrices]

InitRunEngine ==
    /\ EngineIdle /\ LedgerEmpty /\ ValidatorIdle /\ ReportIdle /\ ReporterIdle
    /\ market \in SeqsUpTo(RunEngineTicks, MaxRunTicks)
    /\ queue = <<>>
    /\ run_pc = "ready"

\* line 42 calls on_tick with the next tick of the sorted list: lines 19-20
RunOnTick ==
    /\ run_pc = "loop"
    /\ pc = "idle"
    /\ queue # <<>>
    /\ tick' = Head(queue)
    /\ buffer' = Append(buffer, Head(queue))
    /\ queue' = Tail(queue)
    /\ GoTo(1)
    /\ last' = [kind |-> "tick"]
    /\ UNCHANGED <<positions, order_log, error_log, pending, instantiated,
                   gen_calls, escaped>>
    /\ UNCHANGED <<market, run_pc, ledger_vars, validator_vars, report_vars,
                   reporter_vars>>

\* the last on_tick has returned and the for loop of line 41 is exhausted
RunEngineReturn == pc = "idle" /\ RunReturn

NextRunEngine ==
    \/ Run
    \/ RunOnTick
    \/ \E b \in Behaviours(strat) : StrategyStep(b)
    \/ \E fail \in BOOLEAN : OrderStep(fail)
    \/ RunEngineReturn

SpecRunEngine == InitRunEngine /\ [][NextRunEngine]_vars

\* the orders of a batch of intents, in the order the strategy returned them
BatchOrders(signals, t) == [k \in 1..Len(signals) |-> IntentOrder(signals[k], t)]

\* C28: the Order Log is in processing order. Timestamps of consecutive
\* entries never decrease; every entry added is the first order still pending
\* of the strategy at hand, stamped with the observation being processed; the
\* pending orders of a strategy are its intents in the order it returned them;
\* and inside one on_tick the strategies are visited in registration order.
C28_LogInProcessingOrder ==
    /\ [](\A i, j \in 1..Len(order_log) :
            i < j => order_log[i].timestamp <= order_log[j].timestamp)
    /\ [][order_log' # order_log =>
            /\ pending # <<>>
            /\ Len(order_log') = Len(order_log) + 1
            /\ SubSeq(order_log', 1, Len(order_log)) = order_log
            /\ \E status \in {"FILLED", "REJECTED"} :
                   order_log'[Len(order_log')] = [Head(pending) EXCEPT !.status = status]
            /\ Head(pending).timestamp = tick.timestamp
            /\ pending' = Tail(pending)
            /\ strat' \in {strat, strat + 1}]_vars
    /\ [][(pending' # pending /\ order_log' = order_log /\ pending' # <<>>) =>
            /\ pending = <<>>
            /\ strat' = strat
            /\ \E b \in Behaviours(strat) :
                   /\ ~b.raises
                   /\ \A k \in 1..Len(b.signals) : Len(b.signals[k]) \in {3, 4}
                   /\ pending' = BatchOrders(b.signals, tick)]_vars
    /\ [][pc # "idle" => strat' >= strat]_vars

C28_Witness ==
    /\ run_pc = "done"
    /\ Len(market) = 2
    /\ market[1].timestamp > market[2].timestamp
    /\ Len(order_log) >= 4
    /\ order_log[1].timestamp < order_log[Len(order_log)].timestamp
    /\ \E i \in 1..Len(order_log) - 2 :
          /\ order_log[i].timestamp = order_log[i + 2].timestamp
          /\ <<order_log[i].symbol, order_log[i].side>> = <<"X", "BUY">>
          /\ <<order_log[i + 1].symbol, order_log[i + 1].side>> = <<"Y", "BUY">>
          /\ <<order_log[i + 2].symbol, order_log[i + 2].side>> = <<"X", "SELL">>

----------------------------------------------------------------------------
(* The logs only grow, checked under Spec *)

\* what the Order Log records of an order
Recorded(o) == <<o.symbol, o.side, o.quantity, o.price, o.status>>

\* C29: the Order Log and the Error Log are append-only. Every step of
\* on_tick leaves the previous content of each log as a prefix of the new
\* content, hence so does every on_tick call, and the recorded symbol, side,
\* quantity, price and status of a logged order stay what they were.
C29_LogsAppendOnly ==
    [][/\ IsPrefix(order_log, order_log')
       /\ IsPrefix(error_log, error_log')
       /\ \A i \in 1..Len(order_log) :
              /\ i <= Len(order_log')
              /\ Recorded(order_log'[i]) = Recorded(order_log[i])]_vars

C29_Witness ==
    /\ pc = "idle"
    /\ Len(buffer) = 2
    /\ Len(order_log) >= 2
    /\ Len(error_log) >= 2
    /\ order_log[1].timestamp = 1 /\ order_log[Len(order_log)].timestamp = 2
    /\ error_log[1].timestamp = 1 /\ error_log[Len(error_log)].timestamp = 2
    /\ \E i \in 1..Len(order_log) : order_log[i].status = "REJECTED"

----------------------------------------------------------------------------
(* models.py: the ledger in binary floating point, checked under SpecLedger *)

\* the precision of the float model in bits; a Python float has 53, and the
\* arithmetic below rounds as it does on the ledger's inputs whenever the
\* precision is 1 modulo 4
FloatBits == 9

RECURSIVE Pow2(_)
Pow2(k) == IF k = 0 THEN 1 ELSE 2 * Pow2(k - 1)

RECURSIVE ScaleUp(_, _, _)
\* the least k >= 0 with a * 2^k >= 2^(FloatBits - 1) * d
ScaleUp(a, d, k) ==
    IF a * Pow2(k) >= Pow2(FloatBits - 1) * d THEN k ELSE ScaleUp(a, d, k + 1)

RECURSIVE ScaleDown(_, _, _)
\* the least k >= 0 with a < 2^FloatBits * d * 2^k
ScaleDown(a, d, k) ==
    IF a < Pow2(FloatBits) * d * Pow2(k) THEN k ELSE ScaleDown(a, d, k + 1)

\* n / d, both positive, rounded to the nearest integer, a tie going to the
\* even one
NearestEven(n, d) ==
    LET m == n \div d
        twice == 2 * (n - m * d)
    IN  IF twice > d \/ (twice = d /\ m % 2 = 1) THEN m + 1 ELSE m

\* the float nearest to the rational r: FloatBits significant bits
FRound(r) ==
    IF r[1] = 0 THEN RZero
    ELSE
    LET a == Abs(r[1])
        d == r[2]
        sign == IF r[1] < 0 THEN -1 ELSE 1
        down == ScaleDown(a, d, 0)
    IN  IF down > 0
        THEN Norm(sign * NearestEven(a, d * Pow2(down)) * Pow2(down), 1)
        ELSE LET up == ScaleUp(a, d, 0)
             IN  Norm(sign * NearestEven(a * Pow2(up), d), Pow2(up))

FAdd(a, b) == FRound(RAdd(a, b))
FSub(a, b) == FRound(RSub(a, b))
FMul(a, b) == FRound(RMul(a, b))
FDiv(a, b) == FRound(RDiv(a, b))

\* calculate_average_price, lines 114-118, on floats
calculate_average_price_float(position) ==
    IF position.total_shares > 0
    THEN [position EXCEPT !.average_price =
             FDiv(position.total_cost, RInt(position.total_shares))]
    ELSE [position EXCEPT !.average_price = RZero]

\* lines 134-137 on floats
BuyBranchFloat(position, quantity, price) ==
    calculate_average_price_float(
        [position EXCEPT
            !.total_shares = position.total_shares + quantity,
            !.total_cost = FAdd(position.total_cost, FMul(RInt(price), RInt(quantity)))])

\* lines 139-149 on floats
SellBranchFloat(position, quantity) ==
    LET sell_quantity == Min(quantity, position.total_shares)
        p1 == [position EXCEPT
                  !.total_shares = position.total_shares - sell_quantity,
                  !.total_cost = FSub(position.total_cost,
                                      FMul(position.average_price, RInt(sell_quantity)))]
        p2 == IF p1.total_shares <= 0
              THEN [p1 EXCEPT !.total_cost = RZero, !.average_price = RZero]
              ELSE p1
    IN  calculate_average_price_float(p2)

\* update_position, lines 120-149, on floats
update_position_float(all, order) ==
    LET symbol == order.symbol
        present == IF symbol \in DOMAIN all THEN all ELSE (symbol :> ZeroPosition) @@ all
        position == present[symbol]
    IN  IF order.side = "BUY"
        THEN [present EXCEPT ![symbol] = BuyBranchFloat(position, order.quantity, order.price)]
        ELSE IF order.side = "SELL"
        THEN [present EXCEPT ![symbol] = SellBranchFloat(position, order.quantity)]
        ELSE present

RECURSIVE FloatLedger(_)
\* all_positions after update_position was called with each of the orders
FloatLedger(orders) ==
    IF orders = <<>> THEN <<>>
    ELSE update_position_float(FloatLedger(SubSeq(orders, 1, Len(orders) - 1)),
                               orders[Len(orders)])

\* the latest fill is a SELL that leaves a positive quantity of its symbol
PartialSell(before, o) ==
    /\ o.side = "SELL"
    /\ o.symbol \in DOMAIN before
    /\ o.quantity < before[o.symbol].total_shares

\* C30: a SELL fill that leaves a positive quantity changes only the
\* quantity: the symbol's average cost after it equals the one before it,
\* the positions of all other symbols are unchanged, and the sell price has
\* no influence on what remains.
C30_PartialSellKeepsAverage ==
    fills # <<>> =>
        LET o == fills[Len(fills)]
            before == FloatLedger(SubSeq(fills, 1, Len(fills) - 1))
            after == FloatLedger(fills)
        IN  PartialSell(before, o) =>
                /\ after[o.symbol].total_shares
                       = before[o.symbol].total_shares - o.quantity
                /\ after[o.symbol].average_price = before[o.symbol].average_price
                /\ \A other \in DOMAIN before \ {o.symbol} :
                       after[other] = before[other]
                /\ DOMAIN after = DOMAIN before
                /\ \A price \in FillPrices :
                       update_position_float(before, [o EXCEPT !.price = price]) = after

----------------------------------------------------------------------------
(* The value series of the reconstructor, checked under SpecRecon *)

\* portfolio_values[-1] in a state of the loop of lines 109-145
ValueAt(st) == st.values[Len(st.values)]

\* positions.get(symbol) with the default of line 120
ReconHolding(st, symbol) ==
    IF symbol \in DOMAIN st.positions THEN st.positions[symbol]
    ELSE [quantity |-> 0, avg_price |-> RZero]

\* C31: in the reconstructed value series a FILLED BUY appends an entry equal
\* to the previous one, and a FILLED SELL appends the previous entry plus
\* sell_qty * (price - average cost), sell_qty being min(qty, held); a log
\* whose FILLED orders are all BUYs gives a constant series equal to the
\* initial cash.
C31_ValueMovesOnSellsOnly ==
    perf.kind = "done" =>
        /\ \A i \in 1..Len(perf.sorted) :
               LET o == perf.sorted[i]
                   held == ReconHolding(perf.steps[i], o.symbol)
                   sell_qty == Min(o.qty, held.quantity)
               IN  o.status = "FILLED" =>
                       /\ Len(perf.steps[i + 1].values) = Len(perf.steps[i].values) + 1
                       /\ o.side = "BUY" =>
                              ValueAt(perf.steps[i + 1]) = ValueAt(perf.steps[i])
                       /\ o.side = "SELL" =>
                              ValueAt(perf.steps[i + 1]) =
                                  RAdd(ValueAt(perf.steps[i]),
                                       RMul(RInt(sell_qty),
                                            RSub(RInt(o.price), held.avg_price)))
        /\ (\A i \in 1..Len(perf.sorted) :
                perf.sorted[i].status = "FILLED" => perf.sorted[i].side = "BUY") =>
               \A k \in 1..Len(perf.values) : perf.values[k] = RInt(capital)

C31_Witness ==
    /\ perf.kind = "done"
    /\ Len(perf.sorted) = 3
    /\ \A i \in 1..3 : perf.sorted[i].status = "FILLED" /\ perf.sorted[i].symbol = "X"
    /\ perf.sorted[1].side = "BUY" /\ perf.sorted[2].side = "BUY"
    /\ perf.sorted[1].price # perf.sorted[2].price
    /\ perf.sorted[3].side = "SELL"
    /\ perf.sorted[3].qty < ReconHolding(perf.steps[3], "X").quantity
    /\ perf.values[1] = perf.values[3]
    /\ perf.values[4] # perf.values[3]

----------------------------------------------------------------------------
(* The trade-statistics replay against the ledger, checked under Spec *)

\* the loop of lines 204-238 run on the engine's order log
LogEvents == EventsOf(ReportOrders(order_log))

\* position when the loop over a symbol's orders ends (0 without orders)
FinalPosition(events, symbol) ==
    LET own == SelectSeq(events, LAMBDA e : e.order.symbol = symbol)
    IN  IF own = <<>> THEN 0 ELSE own[Len(own)].after.position

\* the event appended to trade_pnls (lines 221, 235)
RealisesPnl(e) == Len(e.after.pnls) > Len(e.before.pnls)

\* C32: for every Order Log the engine produces and every symbol, the signed
\* position _calculate_trade_statistics ends with after the FILLED orders
\* equals the ledger's quantity of the symbol; the position is never
\* negative, and P&L is realised only by a SELL of shares that were held.
C32_TradeReplayAgreesWithLedger ==
    pc = "idle" =>
        /\ \A symbol \in Symbols :
               FinalPosition(LogEvents, symbol) = HoldingIn(positions, symbol).quantity
        /\ \A k \in 1..Len(LogEvents) :
               /\ LogEvents[k].after.position >= 0
               /\ RealisesPnl(LogEvents[k]) =>
                      /\ LogEvents[k].order.side = "SELL"
                      /\ LogEvents[k].before.position > 0

----------------------------------------------------------------------------
(* What the Error Log accounts for, checked under Spec *)

\* the step appended a REJECTED order to the Order Log (lines 32-36)
LogsRejected ==
    /\ Len(order_log') = Len(order_log) + 1
    /\ order_log'[Len(order_log')].status = "REJECTED"

\* the step called generate_signals and the call raised (line 24)
StrategyRaises ==
    /\ gen_calls' # gen_calls
    /\ last'.kind = "strategy_raised"

\* C33: the Error Log holds one entry per REJECTED order of the Order Log
\* and one per strategy invocation that raised, and nothing else: a step adds
\* one entry when it logs a REJECTED order or when the strategy call raised,
\* and none otherwise, so the counts agree after any sequence of on_tick calls.
C33_ErrorsMatchRejectionsAndRaises ==
    [][Len(error_log') - Len(error_log) =
           (IF LogsRejected THEN 1 ELSE 0) + (IF StrategyRaises THEN 1 ELSE 0)]_vars

============================================================================
